---- MODULE Spec2Model ----
(***************************************************************************)
(* Churn_Analysis_Explained.ipynb as a state machine.                      *)
(*                                                                         *)
(* The kernel's namespace is the state: one variable per notebook name,    *)
(* `ns` the set of names that are bound, `pc` the next statement, `out`    *)
(* what the evaluation cell has printed and `err` the exceptions raised.   *)
(* One action per statement.  A statement that raises ends its cell: the   *)
(* rest of the cell is skipped and the next cell is the next to run, as    *)
(* when the cells are executed one after the other.                        *)
(*                                                                         *)
(* A DataFrame is [cols, index, data]: the ordered column labels, the row  *)
(* labels, and one function (column label -> cell) per row.  A Series is   *)
(* [index, values].                                                        *)
(***************************************************************************)
EXTENDS Integers, Sequences, FiniteSets, TLC

VARIABLES pc, ns, err, out,
          df, df_encoded, X, y, models,
          testingDF, missing_cols, todo, visited, encodedTest,
          X_test, y_test, importance_data, importance_df

vars == <<pc, ns, err, out, df, df_encoded, X, y, models,
          testingDF, missing_cols, todo, visited, encodedTest,
          X_test, y_test, importance_data, importance_df>>

-----------------------------------------------------------------------------
(* Bounds *)

\* rows in each of the two csv files
NumRows == 2
\* rows of the test matrix when the evaluation cell is checked on its own
EvalRows == 1

-----------------------------------------------------------------------------
(* Sequences *)

Range(s) == {s[i] : i \in DOMAIN s}

IndexOf(s, e) == CHOOSE i \in DOMAIN s : s[i] = e

RECURSIVE SeqOfSet(_)
\* some enumeration of a finite set (used only where the order is immaterial)
SeqOfSet(S) == IF S = {} THEN <<>>
               ELSE LET e == CHOOSE e \in S : TRUE IN <<e>> \o SeqOfSet(S \ {e})

RECURSIVE Flatten(_)
Flatten(ss) == IF ss = <<>> THEN <<>> ELSE Head(ss) \o Flatten(Tail(ss))

-----------------------------------------------------------------------------
(* The csv files: churn-bigml-80.csv and churn-bigml-20.csv.  A cell is    *)
(* the text that stands for its value ("415", "True", "0").                *)

\* header of both files (the columns the notebook names, one numeric
\* pass-through column, the label last)
CsvColumns == <<"State", "Account length", "Area code", "International plan",
                "Total day minutes", "Churn">>

CsvRow(state, acct, area, plan, mins, churn) ==
    ("State" :> state) @@ ("Account length" :> acct) @@ ("Area code" :> area)
    @@ ("International plan" :> plan) @@ ("Total day minutes" :> mins)
    @@ ("Churn" :> churn)

\* the rows a file is drawn from
CsvRows == { CsvRow("KS", "128", "415", "No", "265.1", "False"),
             CsvRow("OH", "107", "415", "Yes", "161.6", "False"),
             CsvRow("NY", "84", "408", "No", "299.4", "True"),
             CsvRow("KS", "75", "510", "Yes", "166.7", "True") }

\* the contents a csv file of n rows can have
CsvFiles(n) == [1..n -> CsvRows]

\* a training file holds both classes (the classifiers are fitted on two)
TrainFiles(n) == {rows \in CsvFiles(n) :
                    {rows[i]["Churn"] : i \in 1..n} = {"True", "False"}}

\* the values of an encoded column, in sorted order
SortedLevels(c) == IF c = "State" THEN <<"KS", "NY", "OH">>
                   ELSE <<"408", "415", "510">>

-----------------------------------------------------------------------------
(* pandas *)

EmptyFrame == [cols |-> <<>>, index |-> <<>>, data |-> <<>>]
EmptySeries == [index |-> <<>>, values |-> <<>>]

NRows(f) == Len(f.index)

\* pd.read_csv: RangeIndex 0..n-1, columns in header order
ReadCsv(rows) == [cols |-> CsvColumns,
                  index |-> [i \in 1..Len(rows) |-> i - 1],
                  data |-> rows]

\* label in frame.columns
HasColumn(f, c) == c \in Range(f.cols)

\* frame.drop(labels, axis=1), defined when every label is a column
\* (pandas raises KeyError otherwise)
CanDrop(f, labels) == \A c \in labels : HasColumn(f, c)
DropColumns(f, labels) ==
    LET keep == SelectSeq(f.cols, LAMBDA c : c \notin labels)
    IN [cols |-> keep,
        index |-> f.index,
        data |-> [i \in DOMAIN f.data |-> [c \in Range(keep) |-> f.data[i][c]]]]

\* df.replace({'Yes': 1, 'No': 0}), cell by cell over the whole frame
ReplaceCell(v) == IF v = "Yes" THEN "1" ELSE IF v = "No" THEN "0" ELSE v
ReplaceYesNo(f) ==
    [f EXCEPT !.data = [i \in DOMAIN f.data |->
                          [c \in DOMAIN f.data[i] |-> ReplaceCell(f.data[i][c])]]]

\* the indicator columns get_dummies makes for column c: one per level that
\* occurs in the frame, in sorted order, labelled <c>_<level>
LevelsPresent(f, c) ==
    SelectSeq(SortedLevels(c), LAMBDA v : \E i \in DOMAIN f.data : f.data[i][c] = v)
DummyLabel(c, v) == c \o "_" \o v
DummyLabels(f, c) ==
    LET lv == LevelsPresent(f, c) IN [k \in DOMAIN lv |-> DummyLabel(c, lv[k])]

\* pd.get_dummies(frame, columns=encoded): the other columns first, in their
\* order, then the indicators of each encoded column in turn
GetDummies(f, encoded) ==
    LET rest == SelectSeq(f.cols, LAMBDA c : c \notin Range(encoded))
        dummies == Flatten([k \in DOMAIN encoded |-> DummyLabels(f, encoded[k])])
        source(label) == CHOOSE k \in DOMAIN encoded :
                            \E v \in Range(SortedLevels(encoded[k])) :
                                DummyLabel(encoded[k], v) = label
        level(label) == CHOOSE v \in Range(SortedLevels(encoded[source(label)])) :
                            DummyLabel(encoded[source(label)], v) = label
        cell(i, c) == IF c \in Range(rest) THEN f.data[i][c]
                      ELSE IF f.data[i][encoded[source(c)]] = level(c)
                           THEN "True" ELSE "False"
    IN [cols |-> rest \o dummies,
        index |-> f.index,
        data |-> [i \in DOMAIN f.data |->
                    [c \in Range(rest) \cup Range(dummies) |-> cell(i, c)]]]

\* SetColumn writing a missing value in place of the scalar
SetColumnNaN(f, label, v) ==
    [cols |-> IF HasColumn(f, label) THEN f.cols ELSE Append(f.cols, label),
     index |-> f.index,
     data |-> [i \in DOMAIN f.data |->
                 [c \in Range(f.cols) \cup {label} |->
                    IF c = label THEN "NaN" ELSE f.data[i][c]]]]

\* frame[label] = scalar: an existing column is overwritten in place, a new
\* one is appended after the last column; every row gets the scalar
SetColumn(f, label, v) ==
    [cols |-> IF HasColumn(f, label) THEN f.cols ELSE Append(f.cols, label),
     index |-> f.index,
     data |-> [i \in DOMAIN f.data |->
                 [c \in Range(f.cols) \cup {label} |->
                    IF c = label THEN v ELSE f.data[i][c]]]]

\* SelectColumns as a filter: the listed columns, left in the order they
\* have in the frame
SelectColumnsFrameOrder(f, labels) ==
    LET keep == SelectSeq(f.cols, LAMBDA c : c \in Range(labels))
    IN [cols |-> keep,
        index |-> f.index,
        data |-> [i \in DOMAIN f.data |-> [c \in Range(keep) |-> f.data[i][c]]]]

\* SelectColumns by position: as many leading columns as there are labels
SelectColumnsByPosition(f, labels) ==
    LET keep == SubSeq(f.cols, 1, Len(labels))
    IN [cols |-> keep,
        index |-> f.index,
        data |-> [i \in DOMAIN f.data |-> [c \in Range(keep) |-> f.data[i][c]]]]

\* frame[labels] with a list of labels: those columns, in the order of the
\* list, rows untouched; KeyError when a label is no column
CanSelect(f, labels) == \A k \in DOMAIN labels : HasColumn(f, labels[k])
SelectColumns(f, labels) ==
    [cols |-> labels,
     index |-> f.index,
     data |-> [i \in DOMAIN f.data |-> [c \in Range(labels) |-> f.data[i][c]]]]

\* frame[label] with one label: that column as a Series
GetColumn(f, label) ==
    [index |-> f.index, values |-> [i \in DOMAIN f.data |-> f.data[i][label]]]

\* Series.astype(int) of a boolean Series
BoolToInt(v) == IF v = "True" THEN 1 ELSE 0
AsTypeInt(s) == [s EXCEPT !.values = [i \in DOMAIN s.values |-> BoolToInt(s.values[i])]]

-----------------------------------------------------------------------------
(* scikit-learn.  What a fit learns is opaque here: the weight an estimator *)
(* learns for its j-th feature is the token <<estimator, j>>.               *)

ModelNames == <<"Logistic Regression", "Ridge Regression", "Lasso Regression",
                "Decision Tree", "Random Forest", "Gradient Boosting">>

\* the notebook name each estimator is bound to
ModelVar(m) == CASE m = "Logistic Regression" -> "logreg"
                 [] m = "Ridge Regression" -> "ridge_best"
                 [] m = "Lasso Regression" -> "lasso_best"
                 [] m = "Decision Tree" -> "dtree"
                 [] m = "Random Forest" -> "rf"
                 [] m = "Gradient Boosting" -> "gbc"

\* Ridge and Lasso are regressors: predict returns continuous scores
Regressors == {"Ridge Regression", "Lasso Regression"}
Unfitted == [name |-> "", feature_names_in_ |-> <<>>, weights |-> <<>>]

\* Estimator(...).fit(X, y): remembers the columns it was fitted on and
\* learns one weight per column
Fit(m, features, labels) ==
    [name |-> m,
     feature_names_in_ |-> features.cols,
     weights |-> [j \in 1..Len(features.cols) |-> <<m, j>>]]

\* logreg.coef_[0], ridge_best.coef_, dtree.feature_importances_, ...: the
\* one-dimensional weight vector of a fitted estimator
WeightVector(model) == model.weights

\* scores are in tenths: 4 is 0.4, 5 is 0.5, 6 is 0.6
Scores == {4, 5, 6}
Labels == {0, 1}

\* estimator.predict(features): scikit-learn refuses a matrix whose column
\* names are not the fitted ones, in the fitted order; otherwise one
\* prediction per row, a label for a classifier, a score for a regressor
CanPredict(model, features) == features.cols = model.feature_names_in_
Predictions(model, features) ==
    [1..NRows(features) -> IF model.name \in Regressors THEN Scores ELSE Labels]

\* the threshold with the boundary excluded (scores > 0.5)
AboveHalf(s) == 10 * 1 < 2 * s

\* (scores >= 0.5).astype(int), scores in tenths
AtLeastHalf(s) == 10 * 1 <= 2 * s
Threshold(pred) == [i \in DOMAIN pred |-> IF AtLeastHalf(pred[i]) THEN 1 ELSE 0]

\* the second argument of classification_report in lines 164-169
Normalized(m, pred) == IF m \in Regressors THEN Threshold(pred) ELSE pred

\* MakeSeries losing the last label and value
MakeSeriesShort(values, labels) ==
    [index |-> SubSeq(labels, 1, Len(labels) - 1),
     values |-> SubSeq(values, 1, Len(values) - 1)]

\* pd.Series(values, index=labels): ValueError unless the lengths agree
CanSeries(values, labels) == Len(values) = Len(labels)
MakeSeries(values, labels) == [index |-> labels, values |-> values]

\* a cell of a frame that no value was given for
NaN == <<>>

RECURSIVE UnionIndex(_)
\* the row labels of the series of a dict, each once
UnionIndex(items) ==
    IF items = <<>> THEN <<>>
    ELSE LET rest == UnionIndex(Tail(items))
         IN Head(items).series.index
            \o SelectSeq(rest, LAMBDA l : l \notin Range(Head(items).series.index))

\* pd.DataFrame(dict of Series): one column per key, in insertion order, one
\* row per label of the united indexes, NaN where a series has no such label
FrameOfSeries(items) ==
    LET rows == UnionIndex(items)
        keys == [k \in DOMAIN items |-> items[k].key]
        cell(l, k) == IF l \in Range(items[k].series.index)
                      THEN items[k].series.values[IndexOf(items[k].series.index, l)]
                      ELSE NaN
    IN [cols |-> keys,
        index |-> rows,
        data |-> [i \in DOMAIN rows |->
                    [c \in Range(keys) |-> cell(rows[i], IndexOf(keys, c))]]]

-----------------------------------------------------------------------------
(* The notebook.  pc is the source line of the next statement, 0 at the end. *)

\* first line of each code cell, in notebook order
CellStarts == <<30, 62, 94, 125, 164, 195>>

\* the first line of the cell after the one that holds `line` (0: none)
NextCell(line) ==
    LET later == SelectSeq(CellStarts, LAMBDA c : c > line)
    IN IF later = <<>> THEN 0 ELSE Head(later)

\* an exception at `line`: it is recorded and the rest of the cell is skipped
Raise(line, kind) ==
    /\ err' = Append(err, [line |-> line, kind |-> kind])
    /\ pc' = NextCell(line)

Bound(names) == names \subseteq ns

\* MissingCols taking the last test column for the label and leaving it out
MissingColsSkipLast(train_cols, test_cols) ==
    Range(train_cols) \ Range(SubSeq(test_cols, 1, Len(test_cols) - 1))

\* set(X.columns) - set(testingDF.columns)
MissingCols(train_cols, test_cols) == Range(train_cols) \ Range(test_cols)

Init ==
    /\ pc = 30
    /\ ns = {}
    /\ err = <<>>
    /\ out = <<>>
    /\ df = EmptyFrame
    /\ df_encoded = EmptyFrame
    /\ X = EmptyFrame
    /\ y = EmptySeries
    /\ models = [m \in Range(ModelNames) |-> Unfitted]
    /\ testingDF = EmptyFrame
    /\ missing_cols = {}
    /\ todo = {}
    /\ visited = <<>>
    /\ encodedTest = EmptyFrame
    /\ X_test = EmptyFrame
    /\ y_test = EmptySeries
    /\ importance_data = <<>>
    /\ importance_df = EmptyFrame

\* line 30: df = pd.read_csv('churn-bigml-80.csv')
LoadTrain ==
    /\ pc = 30
    /\ \E rows \in TrainFiles(NumRows) : df' = ReadCsv(rows)
    /\ ns' = ns \cup {"df"}
    /\ pc' = 33
    /\ UNCHANGED <<err, out, df_encoded, X, y, models, testingDF, missing_cols,
                   todo, visited, encodedTest, X_test, y_test, importance_data,
                   importance_df>>

\* line 33: df = df.drop(['Account length'], axis=1)
DropAccountLength ==
    /\ pc = 33
    /\ IF CanDrop(df, {"Account length"})
       THEN /\ df' = DropColumns(df, {"Account length"})
            /\ pc' = 34
            /\ UNCHANGED err
       ELSE /\ Raise(33, "KeyError")
            /\ UNCHANGED df
    /\ UNCHANGED <<ns, out, df_encoded, X, y, models, testingDF, missing_cols,
                   todo, visited, encodedTest, X_test, y_test, importance_data,
                   importance_df>>

\* line 34: df = df.replace({'Yes': 1, 'No': 0})
ReplaceTrain ==
    /\ pc = 34
    /\ df' = ReplaceYesNo(df)
    /\ pc' = 35
    /\ UNCHANGED <<ns, err, out, df_encoded, X, y, models, testingDF,
                   missing_cols, todo, visited, encodedTest, X_test, y_test,
                   importance_data, importance_df>>

\* line 35: df_encoded = pd.get_dummies(df, columns=['State', 'Area code'])
EncodeTrain ==
    /\ pc = 35
    /\ df_encoded' = GetDummies(df, <<"State", "Area code">>)
    /\ ns' = ns \cup {"df_encoded"}
    /\ pc' = NextCell(35)
    /\ UNCHANGED <<err, out, df, X, y, models, testingDF, missing_cols, todo,
                   visited, encodedTest, X_test, y_test, importance_data,
                   importance_df>>

\* line 62: X = df_encoded.drop('Churn', axis=1)
MakeX ==
    /\ pc = 62
    /\ IF ~Bound({"df_encoded"})
       THEN Raise(62, "NameError") /\ UNCHANGED <<X, ns>>
       ELSE IF ~CanDrop(df_encoded, {"Churn"})
       THEN Raise(62, "KeyError") /\ UNCHANGED <<X, ns>>
       ELSE /\ X' = DropColumns(df_encoded, {"Churn"})
            /\ ns' = ns \cup {"X"}
            /\ pc' = 63
            /\ UNCHANGED err
    /\ UNCHANGED <<out, df, df_encoded, y, models, testingDF, missing_cols,
                   todo, visited, encodedTest, X_test, y_test, importance_data,
                   importance_df>>

\* line 63: y = df_encoded['Churn'].astype(int)
MakeY ==
    /\ pc = 63
    /\ IF ~HasColumn(df_encoded, "Churn")
       THEN Raise(63, "KeyError") /\ UNCHANGED <<y, ns>>
       ELSE /\ y' = AsTypeInt(GetColumn(df_encoded, "Churn"))
            /\ ns' = ns \cup {"y"}
            /\ pc' = NextCell(63)
            /\ UNCHANGED err
    /\ UNCHANGED <<out, df, df_encoded, X, models, testingDF, missing_cols,
                   todo, visited, encodedTest, X_test, y_test, importance_data,
                   importance_df>>

\* lines 94-99, one statement each: <name> = <Estimator>(...).fit(X, y)
FitLine(k) == 93 + k
FitModel(k) ==
    /\ pc = FitLine(k)
    /\ IF ~Bound({"X", "y"})
       THEN Raise(FitLine(k), "NameError") /\ UNCHANGED <<models, ns>>
       ELSE /\ models' = [models EXCEPT ![ModelNames[k]] = Fit(ModelNames[k], X, y)]
            /\ ns' = ns \cup {ModelVar(ModelNames[k])}
            /\ pc' = IF k < Len(ModelNames) THEN FitLine(k + 1)
                     ELSE NextCell(FitLine(k))
            /\ UNCHANGED err
    /\ UNCHANGED <<out, df, df_encoded, X, y, testingDF, missing_cols, todo,
                   visited, encodedTest, X_test, y_test, importance_data,
                   importance_df>>

\* line 125: testingDF = pd.read_csv('churn-bigml-20.csv')
LoadTest ==
    /\ pc = 125
    /\ \E rows \in CsvFiles(NumRows) : testingDF' = ReadCsv(rows)
    /\ ns' = ns \cup {"testingDF"}
    /\ pc' = 126
    /\ UNCHANGED <<err, out, df, df_encoded, X, y, models, missing_cols, todo,
                   visited, encodedTest, X_test, y_test, importance_data,
                   importance_df>>

\* line 126: testingDF = testingDF.drop(['Account length'], axis=1)
DropAccountLengthTest ==
    /\ pc = 126
    /\ IF CanDrop(testingDF, {"Account length"})
       THEN /\ testingDF' = DropColumns(testingDF, {"Account length"})
            /\ pc' = 127
            /\ UNCHANGED err
       ELSE /\ Raise(126, "KeyError")
            /\ UNCHANGED testingDF
    /\ UNCHANGED <<ns, out, df, df_encoded, X, y, models, missing_cols, todo,
                   visited, encodedTest, X_test, y_test, importance_data,
                   importance_df>>

\* line 127: testingDF = testingDF.replace({'Yes': 1, 'No': 0})
ReplaceTest ==
    /\ pc = 127
    /\ testingDF' = ReplaceYesNo(testingDF)
    /\ pc' = 128
    /\ UNCHANGED <<ns, err, out, df, df_encoded, X, y, models, missing_cols,
                   todo, visited, encodedTest, X_test, y_test, importance_data,
                   importance_df>>

\* line 128: testingDF = pd.get_dummies(testingDF, columns=['State', 'Area code'])
\* encodedTest keeps this frame, the one alignment starts from
EncodeTest ==
    /\ pc = 128
    /\ testingDF' = GetDummies(testingDF, <<"State", "Area code">>)
    /\ encodedTest' = testingDF'
    /\ pc' = 131
    /\ UNCHANGED <<ns, err, out, df, df_encoded, X, y, models, missing_cols,
                   todo, visited, X_test, y_test, importance_data, importance_df>>

\* line 131: missing_cols = set(X.columns) - set(testingDF.columns)
ComputeMissing ==
    /\ pc = 131
    /\ IF ~Bound({"X", "testingDF"})
       THEN Raise(131, "NameError") /\ UNCHANGED <<missing_cols, todo, ns>>
       ELSE /\ missing_cols' = MissingCols(X.cols, testingDF.cols)
            /\ todo' = missing_cols'
            /\ ns' = ns \cup {"missing_cols"}
            /\ pc' = 132
            /\ UNCHANGED err
    /\ UNCHANGED <<out, df, df_encoded, X, y, models, testingDF, visited,
                   encodedTest, X_test, y_test, importance_data, importance_df>>

\* FillMissing assigning the column to X instead of testingDF
FillMissingIntoX ==
    /\ pc = 132
    /\ todo # {}
    /\ \E col \in todo :
         /\ X' = SetColumn(X, col, "0")
         /\ todo' = todo \ {col}
         /\ visited' = Append(visited, col)
    /\ ns' = ns \cup {"col"}
    /\ UNCHANGED <<pc, err, out, df, df_encoded, testingDF, y, models,
                   missing_cols, encodedTest, X_test, y_test, importance_data,
                   importance_df>>

\* lines 132-133: for col in missing_cols: testingDF[col] = 0
\* a set is iterated in no particular order; todo is what is left to visit
FillMissing ==
    /\ pc = 132
    /\ todo # {}
    /\ \E col \in todo :
         /\ testingDF' = SetColumn(testingDF, col, "0")
         /\ todo' = todo \ {col}
         /\ visited' = Append(visited, col)
    /\ ns' = ns \cup {"col"}
    /\ UNCHANGED <<pc, err, out, df, df_encoded, X, y, models, missing_cols,
                   encodedTest, X_test, y_test, importance_data, importance_df>>

\* line 132, the set is exhausted
EndFill ==
    /\ pc = 132
    /\ todo = {}
    /\ pc' = 134
    /\ UNCHANGED <<ns, err, out, df, df_encoded, X, y, models, testingDF,
                   missing_cols, todo, visited, encodedTest, X_test, y_test,
                   importance_data, importance_df>>

\* line 134: testingDF = testingDF[X.columns]
SelectTrainColumns ==
    /\ pc = 134
    /\ IF CanSelect(testingDF, X.cols)
       THEN /\ testingDF' = SelectColumns(testingDF, X.cols)
            /\ pc' = 135
            /\ UNCHANGED err
       ELSE /\ Raise(134, "KeyError")
            /\ UNCHANGED testingDF
    /\ UNCHANGED <<ns, out, df, df_encoded, X, y, models, missing_cols, todo,
                   visited, encodedTest, X_test, y_test, importance_data,
                   importance_df>>

\* lines 135-136: X_test = testingDF.drop('Churn', axis=1)
\*                y_test = testingDF['Churn']
\* the second statement runs only when the first has not raised
MakeTestXY ==
    /\ pc = 135
    /\ IF ~CanDrop(testingDF, {"Churn"})
       THEN /\ Raise(135, "KeyError")
            /\ UNCHANGED <<X_test, y_test, ns>>
       ELSE /\ X_test' = DropColumns(testingDF, {"Churn"})
            /\ IF ~HasColumn(testingDF, "Churn")
               THEN /\ Raise(136, "KeyError")
                    /\ ns' = ns \cup {"X_test"}
                    /\ UNCHANGED y_test
               ELSE /\ y_test' = GetColumn(testingDF, "Churn")
                    /\ ns' = ns \cup {"X_test", "y_test"}
                    /\ pc' = NextCell(136)
                    /\ UNCHANGED err
    /\ UNCHANGED <<out, df, df_encoded, X, y, models, testingDF, missing_cols,
                   todo, visited, encodedTest, importance_data, importance_df>>

\* lines 164-169, one statement each:
\* print(<title>, classification_report(y_test, <prediction of the k-th model>))
\* a report is kept in out with the prediction it was made from
EvalLine(k) == 163 + k
EmitReport(k) ==
    LET m == ModelNames[k] IN
    /\ pc = EvalLine(k)
    /\ IF ~Bound({"y_test", "X_test", ModelVar(m)})
       THEN Raise(EvalLine(k), "NameError") /\ UNCHANGED out
       ELSE IF ~CanPredict(models[m], X_test)
       THEN Raise(EvalLine(k), "ValueError") /\ UNCHANGED out
       ELSE /\ \E pred \in Predictions(models[m], X_test) :
                 out' = Append(out, [title |-> m,
                                     y_true |-> y_test.values,
                                     predicted |-> pred,
                                     y_pred |-> Normalized(m, pred)])
            /\ pc' = IF k < Len(ModelNames) THEN EvalLine(k + 1)
                     ELSE NextCell(EvalLine(k))
            /\ UNCHANGED err
    /\ UNCHANGED <<ns, df, df_encoded, X, y, models, testingDF, missing_cols,
                   todo, visited, encodedTest, X_test, y_test, importance_data,
                   importance_df>>

\* lines 195-202: importance_data = {<title>: pd.Series(<weights>, index=X.columns), ...}
BuildImportanceData ==
    /\ pc = 195
    /\ IF ~Bound({"X"} \cup {ModelVar(ModelNames[k]) : k \in DOMAIN ModelNames})
       THEN Raise(195, "NameError") /\ UNCHANGED <<importance_data, ns>>
       ELSE IF \E k \in DOMAIN ModelNames :
                  ~CanSeries(WeightVector(models[ModelNames[k]]), X.cols)
       THEN Raise(195, "ValueError") /\ UNCHANGED <<importance_data, ns>>
       ELSE /\ importance_data' =
                 [k \in DOMAIN ModelNames |->
                    [key |-> ModelNames[k],
                     series |-> MakeSeries(WeightVector(models[ModelNames[k]]),
                                           X.cols)]]
            /\ ns' = ns \cup {"importance_data"}
            /\ pc' = 204
            /\ UNCHANGED err
    /\ UNCHANGED <<out, df, df_encoded, X, y, models, testingDF, missing_cols,
                   todo, visited, encodedTest, X_test, y_test, importance_df>>

\* line 204: importance_df = pd.DataFrame(importance_data)
BuildImportanceTable ==
    /\ pc = 204
    /\ importance_df' = FrameOfSeries(importance_data)
    /\ ns' = ns \cup {"importance_df"}
    /\ pc' = NextCell(204)
    /\ UNCHANGED <<err, out, df, df_encoded, X, y, models, testingDF,
                   missing_cols, todo, visited, encodedTest, X_test, y_test,
                   importance_data>>

Next ==
    \/ LoadTrain
    \/ DropAccountLength
    \/ ReplaceTrain
    \/ EncodeTrain
    \/ MakeX
    \/ MakeY
    \/ \E k \in DOMAIN ModelNames : FitModel(k)
    \/ LoadTest
    \/ DropAccountLengthTest
    \/ ReplaceTest
    \/ EncodeTest
    \/ ComputeMissing
    \/ FillMissing
    \/ EndFill
    \/ SelectTrainColumns
    \/ MakeTestXY
    \/ \E k \in DOMAIN ModelNames : EmitReport(k)
    \/ BuildImportanceData
    \/ BuildImportanceTable

Spec == Init /\ [][Next]_vars

-----------------------------------------------------------------------------
(* The cells as functions of their inputs *)

\* lines 30-35 and 125-128: a file's rows to the encoded frame
Encoded(rows) ==
    GetDummies(ReplaceYesNo(DropColumns(ReadCsv(rows), {"Account length"})),
               <<"State", "Area code">>)

RECURSIVE FillInOrder(_, _)
\* lines 132-133 with the columns visited in the order of the sequence
FillInOrder(f, order) ==
    IF order = <<>> THEN f
    ELSE FillInOrder(SetColumn(f, Head(order), "0"), Tail(order))

\* the sequences that enumerate a set, each element once
Orders(S) == {o \in [1..Cardinality(S) -> S] : Range(o) = S}

\* lines 131-134 applied to frame f, the loop visiting the missing columns
\* in the order given
Aligned(train_cols, f, order) == SelectColumns(FillInOrder(f, order), train_cols)

\* the training file the evaluation cell is run against on its own
EvalTrainRows == <<CsvRow("KS", "128", "415", "No", "265.1", "False"),
                   CsvRow("NY", "84", "408", "No", "299.4", "True")>>

\* The evaluation cell on its own: the names it reads are bound as the cells
\* before it are written to leave them (six estimators fitted on X, X_test
\* the test matrix in the columns of X, y_test the labels of the test file).
InitEval ==
    \E rows \in CsvFiles(EvalRows) :
      LET train == Encoded(EvalTrainRows)
          test == Encoded(rows)
          features == DropColumns(train, {"Churn"})
          matrix == Aligned(features.cols, test,
                            SeqOfSet(MissingCols(features.cols, test.cols)))
      IN /\ pc = 164
         /\ ns = {"df", "df_encoded", "X", "y", "testingDF", "missing_cols",
                  "X_test", "y_test"}
                 \cup {ModelVar(ModelNames[k]) : k \in DOMAIN ModelNames}
         /\ err = <<>>
         /\ out = <<>>
         /\ df = ReplaceYesNo(DropColumns(ReadCsv(EvalTrainRows), {"Account length"}))
         /\ df_encoded = train
         /\ X = features
         /\ y = AsTypeInt(GetColumn(train, "Churn"))
         /\ models = [m \in Range(ModelNames) |-> Fit(m, features, y)]
         /\ testingDF = matrix
         /\ missing_cols = MissingCols(features.cols, test.cols)
         /\ todo = {}
         /\ visited = SeqOfSet(missing_cols)
         /\ encodedTest = test
         /\ X_test = matrix
         /\ y_test = GetColumn(test, "Churn")
         /\ importance_data = <<>>
         /\ importance_df = EmptyFrame

NextEval == \E k \in DOMAIN ModelNames : EmitReport(k)

SpecEval == InitEval /\ [][NextEval]_vars

-----------------------------------------------------------------------------
(* Properties *)

\* lines 131-134 have run and line 134 has not raised
AlignmentDone == pc = 135

\* the cell of lines 125-136 has been run to its end or to an exception
TestCellRan == "testingDF" \in ns /\ (pc = 0 \/ pc >= 164)

\* the cell of lines 164-169 has been run to its end or to an exception
EvalCellRan == "testingDF" \in ns /\ (pc = 0 \/ pc >= 195)

Titles(reports) == [k \in DOMAIN reports |-> reports[k].title]

\* C1: after the alignment step the test frame's column list is the training
\* column list X.columns, in the same order, and the frame has as many rows
\* as it had before alignment.
C1_SchemaAligned ==
    AlignmentDone =>
        /\ testingDF.cols = X.cols
        /\ NRows(testingDF) = NRows(encodedTest)
        /\ Len(testingDF.data) = Len(encodedTest.data)
        /\ \A i \in DOMAIN testingDF.data : DOMAIN testingDF.data[i] = Range(X.cols)

\* C1 witness: alignment has run on a test schema that differs from the
\* training schema both ways (columns to add and columns to drop).
C1_Witness ==
    /\ AlignmentDone
    /\ missing_cols # {}
    /\ Range(encodedTest.cols) \ (Range(X.cols) \cup {"Churn"}) # {}
    /\ NRows(testingDF) = NumRows

\* C2: under normal operation the test-preparation cell does not fail: it
\* leaves X_test and y_test bound, y_test with one label per test row, and
\* the run ends with six reports printed and the Importance Table built.
C2_TestPreparationSucceeds ==
    /\ TestCellRan =>
          /\ err = <<>>
          /\ Bound({"X_test", "y_test"})
          /\ X_test.cols = X.cols
          /\ Len(y_test.values) = NRows(encodedTest)
    /\ pc = 0 => Len(out) = Len(ModelNames) /\ Bound({"importance_df"})

\* C3: when the column set difference of line 131 is computed, its two
\* operands X.columns and testingDF.columns both hold 'Churn' or both lack it.
C3_LabelHandledAlike ==
    pc = 131 => (HasColumn(X, "Churn") <=> HasColumn(testingDF, "Churn"))

\* C4: in the aligned test frame a training column the test schema lacked
\* is 0 in every row, a test column the training schema lacks is gone, and a
\* column of both schemas keeps the value it had in every row.
C4_FillDropKeep ==
    AlignmentDone =>
        \A i \in DOMAIN testingDF.data :
            /\ \A c \in Range(X.cols) \ Range(encodedTest.cols) :
                   testingDF.data[i][c] = "0"
            /\ \A c \in Range(encodedTest.cols) \ Range(X.cols) :
                   ~HasColumn(testingDF, c) /\ c \notin DOMAIN testingDF.data[i]
            /\ \A c \in Range(X.cols) \cap Range(encodedTest.cols) :
                   testingDF.data[i][c] = encodedTest.data[i][c]

\* C4 witness: the scenario of the claim: the test schema lacks a one-hot
\* column of the training schema and has one the training schema lacks, and
\* a shared one-hot column is kept with a row where it is True.
C4_Witness ==
    /\ AlignmentDone
    /\ "State_KS" \in missing_cols
    /\ HasColumn(encodedTest, "State_NY") /\ ~HasColumn(X, "State_NY")
    /\ \E i \in DOMAIN testingDF.data : testingDF.data[i]["Area code_415"] = "True"

\* C5: aligning the aligned test frame again against the same training
\* schema (set difference, zero fill in any order, selection by X.columns)
\* gives the frame itself.
C5_Idempotent ==
    AlignmentDone =>
        \A order \in Orders(MissingCols(X.cols, testingDF.cols)) :
            /\ CanSelect(FillInOrder(testingDF, order), X.cols)
            /\ Aligned(X.cols, testingDF, order) = testingDF

\* C5 witness: an aligned frame that alignment had to change (columns added
\* and columns dropped) and that holds cells other than 0.
C5_Witness ==
    /\ AlignmentDone
    /\ Len(visited) >= 1
    /\ Len(testingDF.cols) < Len(encodedTest.cols) + Len(visited)
    /\ \E i \in DOMAIN testingDF.data : \E c \in Range(testingDF.cols) :
           testingDF.data[i][c] = "True"

\* C6: every step of the alignment (lines 131-134) leaves X, y and the
\* frame they were taken from as they are, and keeps the test frame's row
\* labels, their order, and the cells of the columns it keeps.
C6_OnlyTestFrameChanges ==
    [][(pc \in {131, 132, 134}) =>
          (/\ X' = X
           /\ y' = y
           /\ df_encoded' = df_encoded
           /\ testingDF'.index = testingDF.index
           /\ Len(testingDF'.data) = Len(testingDF.data)
           /\ \A i \in DOMAIN testingDF.data :
                 \A c \in Range(testingDF.cols) \cap Range(testingDF'.cols) :
                     testingDF'.data[i][c] = testingDF.data[i][c])]_vars

\* C6 witness: alignment has added and dropped columns of a test frame of
\* several rows while X and y hold the training data.
C6_Witness ==
    /\ AlignmentDone
    /\ Len(visited) >= 1
    /\ testingDF.cols # encodedTest.cols
    /\ Len(testingDF.index) >= 2
    /\ X.cols # <<>> /\ Len(y.values) = NumRows

\* C7: a Ridge or Lasso report is made from the scores thresholded at 0.5,
\* 1 for a score >= 0.5 (0.5 included) and 0 below; a report of one of the
\* four classifiers is made from the prediction as predict returned it.
C7_ThresholdLaw ==
    \A k \in DOMAIN out :
        IF out[k].title \in {"Ridge Regression", "Lasso Regression"}
        THEN /\ DOMAIN out[k].y_pred = DOMAIN out[k].predicted
             /\ \A i \in DOMAIN out[k].predicted :
                   /\ out[k].predicted[i] \in {5, 6} => out[k].y_pred[i] = 1
                   /\ out[k].predicted[i] = 4 => out[k].y_pred[i] = 0
        ELSE out[k].y_pred = out[k].predicted

\* C7 witness: all six reports are out, Ridge's made from a score of exactly
\* 0.5 and Lasso's from a score below it.
C7_Witness ==
    /\ Len(out) = Len(ModelNames)
    /\ out[2].title = "Ridge Regression" /\ out[2].predicted[1] = 5
    /\ out[3].title = "Lasso Regression" /\ out[3].predicted[1] = 4
    /\ out[4].predicted[1] = 1

\* C8: once the evaluation cell has run, exactly six reports are out, one
\* per model in the order Logistic, Ridge, Lasso, Decision Tree, Random
\* Forest, Gradient Boosting; a model is fitted before its report, and the
\* Importance Table is built only after all six models are fitted.
C8_SixReportsInOrder ==
    /\ EvalCellRan => Titles(out) = ModelNames
    /\ \A k \in DOMAIN out : Bound({ModelVar(out[k].title)})
    /\ Bound({"importance_df"}) =>
          Bound({ModelVar(ModelNames[k]) : k \in DOMAIN ModelNames})

\* C9: the Importance Table has one row per column of X, labelled by
\* X.columns, and six columns, one per model name, and no cell is missing.
C9_ImportanceShape ==
    Bound({"importance_df"}) =>
        /\ importance_df.index = X.cols
        /\ Len(importance_df.data) = Len(X.cols)
        /\ importance_df.cols = ModelNames
        /\ Len(importance_df.cols) = 6
        /\ \A i \in DOMAIN importance_df.data :
              /\ DOMAIN importance_df.data[i] = Range(ModelNames)
              /\ \A c \in Range(ModelNames) : importance_df.data[i][c] # NaN

\* C9 witness: the table is built over a feature matrix of several columns.
C9_Witness ==
    /\ Bound({"importance_df"})
    /\ Len(X.cols) >= 4
    /\ Len(importance_df.index) >= 4
    /\ importance_df.data[1]["Lasso Regression"] = <<"Lasso Regression", 1>>

\* C10: the aligned test frame is the same whatever order the loop visits
\* the missing columns in: it is the frame every order of visiting gives.
C10_OrderIndependent ==
    AlignmentDone =>
        \A order \in Orders(missing_cols) :
            testingDF = Aligned(X.cols, encodedTest, order)

\* C10 witness: the loop has visited two or more missing columns, in an
\* order other than the one the set is enumerated in.
C10_Witness ==
    /\ AlignmentDone
    /\ Len(visited) >= 2
    /\ visited # SeqOfSet(missing_cols)

====
